---- MODULE Spec2Model ----
(***************************************************************************)
(* dextro: positional index over directories of line-delimited records.    *)
(*                                                                         *)
(* The module models                                                       *)
(*   - the loaders' byte-level scan of one file (dextro/loaders.py),        *)
(*   - the enrichment pipeline and FileIndexer (dextro/indexing.py),        *)
(*   - DirectoryIndexer in sequential and in parallel mode, with the       *)
(*     worker pool, the shared queue and the completion sentinels,         *)
(*   - index_dataset, the consumer that caps and materializes the rows,    *)
(*   - the readers (dextro/dataset.py, dextro/torch.py): construction,     *)
(*     lookup, cleanup and the end of the process.                         *)
(*                                                                         *)
(* Four specifications share the variables:                                *)
(*   Spec      one indexing run of index_dataset over a directory;         *)
(*   ScanSpec  one loader scanning one file, pass by pass of its loop;     *)
(*   PipeSpec  one FileIndexer over one file, call by call;                *)
(*   ReadSpec  one reader over a stored index.                             *)
(* FairSpec is Spec with the fairness the process scheduling gives.        *)
(***************************************************************************)
EXTENDS Integers, Sequences, FiniteSets, Bags, TLC

\* ------------------------------------------------------------------ bounds

\* Longest file content ScanSpec enumerates, in bytes.
MaxLen == 5
\* Largest num_workers of a run.
MaxWorkers == 2
\* Largest max_iter of a run.
MaxIter == 3
\* Largest batch_size of a run.
MaxBatch == 2
\* Most lines of a file PipeSpec enumerates.
MaxLines == 3
\* Longest list of enrichers PipeSpec enumerates in full.
MaxStages == 2

\* ------------------------------------------------------------------- bytes

\* A byte is a one-character string; the three whitespace bytes and the
\* double quote have names.
SP == "SP"
CR == "CR"
LF == "LF"
QT == "QT"

Digits == {"1", "2"}
Letters == {"t", "e", "x", "h", "i"}
Whitespace == {SP, CR, LF}
Byte == Digits \cup Letters \cup Whitespace \cup {QT, "{", "}", ":", ","}

None == "None"

\* bytes.strip(): ASCII whitespace removed at both ends.
RECURSIVE lstrip(_)
lstrip(s) ==
    IF s # <<>> /\ Head(s) \in Whitespace THEN lstrip(Tail(s)) ELSE s

RECURSIVE rstrip(_)
rstrip(s) ==
    IF s # <<>> /\ s[Len(s)] \in Whitespace
    THEN rstrip(SubSeq(s, 1, Len(s) - 1))
    ELSE s

strip(s) == rstrip(lstrip(s))

\* -------------------------------------------------------------- json.loads

\* A decoded JSON value.  kind "num": text is the literal (digits, or digits
\* e digits for a float); kind "str": text is the characters; kind "obj":
\* members is the dict, in insertion order.
NoValue == [kind |-> None, text |-> <<>>, members |-> <<>>]
NumValue(lit) == [kind |-> "num", text |-> lit, members |-> <<>>]
StrValue(chars) == [kind |-> "str", text |-> chars, members |-> <<>>]
ObjValue(ms) == [kind |-> "obj", text |-> <<>>, members |-> ms]

ParseFail == [ok |-> FALSE, val |-> NoValue, next |-> 0]
ParseOk(v, n) == [ok |-> TRUE, val |-> v, next |-> n]

\* First index >= i of s that is not whitespace (Len(s) + 1 if none).
RECURSIVE SkipWS(_, _)
SkipWS(s, i) ==
    IF i <= Len(s) /\ s[i] \in Whitespace THEN SkipWS(s, i + 1) ELSE i

\* First index >= i of s that is not a digit.
RECURSIVE DigitsEnd(_, _)
DigitsEnd(s, i) ==
    IF i <= Len(s) /\ s[i] \in Digits THEN DigitsEnd(s, i + 1) ELSE i

\* First index >= i of s holding a quote or a control character.
RECURSIVE StringEnd(_, _)
StringEnd(s, i) ==
    IF i <= Len(s) /\ s[i] \notin {QT, CR, LF} THEN StringEnd(s, i + 1) ELSE i

\* A number at s[i]: the integer part and, if complete, an exponent.
ParseNumber(s, i) ==
    LET j == DigitsEnd(s, i)
        k == DigitsEnd(s, j + 1)
    IN  IF j <= Len(s) /\ s[j] = "e" /\ k > j + 1
        THEN ParseOk(NumValue(SubSeq(s, i, k - 1)), k)
        ELSE ParseOk(NumValue(SubSeq(s, i, j - 1)), j)

\* A string literal at s[i] = QT: up to the closing quote, no control
\* character inside (strict mode).
ParseString(s, i) ==
    LET j == StringEnd(s, i + 1)
    IN  IF j <= Len(s) /\ s[j] = QT
        THEN ParseOk(StrValue(SubSeq(s, i + 1, j - 1)), j + 1)
        ELSE ParseFail

\* dict assignment: a repeated key keeps its place and takes the new value.
SetMember(ms, k, v) ==
    IF \E n \in 1..Len(ms) : ms[n].key = k
    THEN [n \in 1..Len(ms) |->
            IF ms[n].key = k THEN [key |-> k, val |-> v] ELSE ms[n]]
    ELSE Append(ms, [key |-> k, val |-> v])

RECURSIVE ParseValue(_, _)
RECURSIVE ParseMembers(_, _, _)

\* The members of an object from the key at s[i] on, ms being those read.
ParseMembers(s, i, ms) ==
    IF ~(i <= Len(s) /\ s[i] = QT) THEN ParseFail
    ELSE
    LET key == ParseString(s, i)
        c == SkipWS(s, key.next)
    IN  IF ~key.ok \/ ~(c <= Len(s) /\ s[c] = ":") THEN ParseFail
        ELSE
        LET v == ParseValue(s, SkipWS(s, c + 1))
            e == SkipWS(s, v.next)
            now == SetMember(ms, key.val.text, v.val)
        IN  IF ~v.ok \/ e > Len(s) THEN ParseFail
            ELSE IF s[e] = "}" THEN ParseOk(ObjValue(now), e + 1)
            ELSE IF s[e] = "," THEN ParseMembers(s, SkipWS(s, e + 1), now)
            ELSE ParseFail

\* scan_once at s[i].
ParseValue(s, i) ==
    IF i > Len(s) THEN ParseFail
    ELSE IF s[i] \in Digits THEN ParseNumber(s, i)
    ELSE IF s[i] = QT THEN ParseString(s, i)
    ELSE IF s[i] = "{"
    THEN LET j == SkipWS(s, i + 1)
         IN  IF j <= Len(s) /\ s[j] = "}"
             THEN ParseOk(ObjValue(<<>>), j + 1)
             ELSE ParseMembers(s, j, <<>>)
    ELSE ParseFail

\* json.loads(content): one value between optional whitespace, nothing
\* after it.  ok = FALSE stands for JSONDecodeError.
json_loads(content) ==
    LET v == ParseValue(content, SkipWS(content, 1))
    IN  IF v.ok /\ SkipWS(content, v.next) = Len(content) + 1
        THEN [ok |-> TRUE, val |-> v.val]
        ELSE [ok |-> FALSE, val |-> NoValue]

\* ------------------------------------------------------------- optionals

\* Python's None beside a value: some = FALSE is None.
Nothing == [some |-> FALSE, v |-> 0]
Some(n) == [some |-> TRUE, v |-> n]
NoNames == [some |-> FALSE, v |-> <<>>]
\* Truth value of an optional integer: None and 0 are false.
Truthy(o) == o.some /\ o.v # 0

\* ---------------------------------------------------------------- loaders

\* A loader instance.  kind "jsonl" is JSONLinesLoader; kind "csv" is
\* CSVLoader with its header, names and delimiter.
JSONLinesLoader ==
    [kind |-> "jsonl", header |-> Nothing, names |-> NoNames,
     delimiter |-> ","]
CSVLoader(header, names, delimiter) ==
    [kind |-> "csv", header |-> header, names |-> names,
     delimiter |-> delimiter]
default_loader == JSONLinesLoader

ListValue(fields) ==
    [kind |-> "list", text |-> <<>>,
     members |-> [n \in 1..Len(fields) |->
                    [key |-> <<>>, val |-> StrValue(fields[n])]]]

\* csv.reader over one line: the reader's character automaton (dialect
\* excel: quotechar QT, doublequote, not strict).  st is the parser state,
\* row the fields saved, field the field being read.  ok = FALSE stands for
\* csv.Error.
RECURSIVE csv_chars(_, _, _, _, _, _)
csv_chars(s, i, delim, st, row, field) ==
    IF i > Len(s)
    THEN \* the end-of-line mark, then the end of the input
         IF st = "START_RECORD" \/ st = "EAT_CRNL"
         THEN [ok |-> TRUE, row |-> row]
         ELSE [ok |-> TRUE, row |-> Append(row, field)]
    ELSE
    LET c == s[i]
        nl == c \in {CR, LF}
    IN  CASE st = "EAT_CRNL" ->
                IF nl THEN csv_chars(s, i + 1, delim, st, row, field)
                ELSE [ok |-> FALSE, row |-> <<>>]
          [] st \in {"START_RECORD", "START_FIELD"} ->
                IF nl /\ st = "START_RECORD"
                THEN csv_chars(s, i + 1, delim, "EAT_CRNL", row, field)
                ELSE IF nl
                THEN csv_chars(s, i + 1, delim, "EAT_CRNL",
                               Append(row, field), <<>>)
                ELSE IF c = QT
                THEN csv_chars(s, i + 1, delim, "IN_QUOTED_FIELD", row, field)
                ELSE IF c = delim
                THEN csv_chars(s, i + 1, delim, "START_FIELD",
                               Append(row, field), <<>>)
                ELSE csv_chars(s, i + 1, delim, "IN_FIELD", row,
                               Append(field, c))
          [] st = "IN_FIELD" ->
                IF nl
                THEN csv_chars(s, i + 1, delim, "EAT_CRNL",
                               Append(row, field), <<>>)
                ELSE IF c = delim
                THEN csv_chars(s, i + 1, delim, "START_FIELD",
                               Append(row, field), <<>>)
                ELSE csv_chars(s, i + 1, delim, st, row, Append(field, c))
          [] st = "IN_QUOTED_FIELD" ->
                IF c = QT
                THEN csv_chars(s, i + 1, delim, "QUOTE_IN_QUOTED_FIELD",
                               row, field)
                ELSE csv_chars(s, i + 1, delim, st, row, Append(field, c))
          [] st = "QUOTE_IN_QUOTED_FIELD" ->
                IF c = QT
                THEN csv_chars(s, i + 1, delim, "IN_QUOTED_FIELD", row,
                               Append(field, c))
                ELSE IF c = delim
                THEN csv_chars(s, i + 1, delim, "START_FIELD",
                               Append(row, field), <<>>)
                ELSE IF nl
                THEN csv_chars(s, i + 1, delim, "EAT_CRNL",
                               Append(row, field), <<>>)
                ELSE csv_chars(s, i + 1, delim, "IN_FIELD", row,
                               Append(field, c))

csv_reader(content, delim) ==
    csv_chars(content, 1, delim, "START_RECORD", <<>>, <<>>)

\* loader.load_item(content): the decoded record, or ok = FALSE when the
\* decoder raises.
load_item(loader, content) ==
    IF loader.kind = "jsonl"
    THEN json_loads(content)
    ELSE LET r == csv_reader(content, loader.delimiter)
         IN  IF r.ok
             THEN [ok |-> TRUE, val |-> ListValue(r.row)]
             ELSE [ok |-> FALSE, val |-> NoValue]

\* Index of the last byte of the line that starts at index i: its LF, or
\* the last byte of the file.
RECURSIVE LineEnd(_, _)
LineEnd(data, i) ==
    IF i >= Len(data) THEN Len(data)
    ELSE IF data[i] = LF THEN i
    ELSE LineEnd(data, i + 1)

\* fp.readline() with the cursor at offset pos.
readline(data, pos) == SubSeq(data, pos + 1, LineEnd(data, pos + 1))

ItemMeta(start, end, filename) ==
    [start |-> start, end |-> end, filename |-> filename,
     additional_info |-> <<>>]
FileItem(meta, data) == [meta |-> meta, data |-> data]
NoItem == FileItem(ItemMeta(0, 0, <<>>), NoValue)

\* The scan's local state: the cursor, the column names and line_idx.
ScanStart(loader) == [pos |-> 0, names |-> loader.names, line_idx |-> 0]

Break(st) == [kind |-> "break", item |-> NoItem, st |-> st]
Raise(st) == [kind |-> "raise", item |-> NoItem, st |-> st]
Skip(st) == [kind |-> "skip", item |-> NoItem, st |-> st]
Yield(item, st) == [kind |-> "yield", item |-> item, st |-> st]

\* The scan state after the line of rawlen bytes has been read.
After(st, rawlen) == [st EXCEPT !.pos = st.pos + rawlen]

\* A variant whose end counts the line's newline with the record.
jsonl_item_with_newline(filename, st, rawlen, linelen, d) ==
    IF ~d.ok THEN Raise(After(st, rawlen))
    ELSE Yield(FileItem(ItemMeta(st.pos, st.pos + linelen + 1, filename),
                        d.val),
               After(st, rawlen))

\* JSONLinesLoader.iter_file_items, from the decoded line on: the item
\* spans the stripped line's length from start.
jsonl_item(filename, st, rawlen, linelen, d) ==
    IF ~d.ok THEN Raise(After(st, rawlen))
    ELSE Yield(FileItem(ItemMeta(st.pos, st.pos + linelen, filename), d.val),
               After(st, rawlen))

\* JSONLinesLoader.iter_file_items, from the stripped line on: an empty
\* line ends the scan.
jsonl_line(loader, filename, st, rawlen, line) ==
    IF line = <<>> THEN Break(st)
    ELSE jsonl_item(filename, st, rawlen, Len(line), load_item(loader, line))

\* One pass of JSONLinesLoader.iter_file_items' loop: start = fp.tell(),
\* line = fp.readline().strip().
jsonl_iter(loader, filename, data, st) ==
    jsonl_line(loader, filename, st, Len(readline(data, st.pos)),
               strip(readline(data, st.pos)))

\* dict(zip(names, row)).
RECURSIVE zip_dict(_, _, _)
zip_dict(names, row, acc) ==
    IF names = <<>> THEN ObjValue(acc)
    ELSE zip_dict(Tail(names), Tail(row),
                  SetMember(acc, Head(names), StrValue(Head(row))))

\* [f'col_{i}' for i in range(n)].
col_names(n) == [i \in 1..n |-> <<"col_", ToString(i - 1)>>]

Fields(val) == [n \in 1..Len(val.members) |-> val.members[n].val.text]

SomeNames(names) == [some |-> TRUE, v |-> names]

\* CSVLoader.iter_file_items, a data line whose row is decoded: the names
\* default to col_i, the row must be as long as the names.
csv_record(filename, st, rawlen, linelen, row, names) ==
    IF Len(names) # Len(row) THEN Raise(After(st, rawlen))
    ELSE Yield(FileItem(ItemMeta(st.pos, st.pos + linelen, filename),
                        zip_dict(names, row, <<>>)),
               [After(st, rawlen) EXCEPT !.names = SomeNames(names)])

\* CSVLoader.iter_file_items, from the decoded line on: while a header is
\* expected and no names are known the line is skipped (before line
\* header) or taken as the names; otherwise it is a data line.
csv_item(loader, filename, st, rawlen, linelen, d) ==
    IF loader.header.some /\ ~st.names.some
    THEN IF st.line_idx < loader.header.v THEN Skip(After(st, rawlen))
         ELSE IF ~d.ok THEN Raise(After(st, rawlen))
         ELSE Skip([After(st, rawlen) EXCEPT
                       !.names = SomeNames(Fields(d.val))])
    ELSE IF ~d.ok THEN Raise(After(st, rawlen))
    ELSE csv_record(filename, st, rawlen, linelen, Fields(d.val),
                    IF st.names.some THEN st.names.v
                    ELSE col_names(Len(d.val.members)))

\* CSVLoader.iter_file_items, from the stripped line on.
csv_line(loader, filename, st, rawlen, line) ==
    IF line = <<>> THEN Break(st)
    ELSE csv_item(loader, filename, st, rawlen, Len(line),
                  load_item(loader, line))

\* One pass of CSVLoader.iter_file_items' loop.
csv_iter(loader, filename, data, st) ==
    csv_line(loader, filename, st, Len(readline(data, st.pos)),
             strip(readline(data, st.pos)))

iter_step(loader, filename, data, st) ==
    IF loader.kind = "jsonl"
    THEN jsonl_iter(loader, filename, data, st)
    ELSE csv_iter(loader, filename, data, st)

\* loader.iter_file_items(path) run to its end: the items yielded, and
\* whether the scan ended by raising.
RECURSIVE iter_from(_, _, _, _, _)
iter_next(loader, filename, data, acc, r) ==
    CASE r.kind = "break" -> [items |-> acc, err |-> FALSE]
      [] r.kind = "raise" -> [items |-> acc, err |-> TRUE]
      [] r.kind = "skip" -> iter_from(loader, filename, data, r.st, acc)
      [] r.kind = "yield" ->
            iter_from(loader, filename, data, r.st, Append(acc, r.item))

iter_from(loader, filename, data, st, acc) ==
    iter_next(loader, filename, data, acc,
              iter_step(loader, filename, data, st))

iter_file_items(loader, filename, data) ==
    iter_from(loader, filename, data, ScanStart(loader), <<>>)

\* -------------------------------------------------------------- enrichers

\* The outcome of a stage on one item: the item, a drop (None), or a raise.
Kept(item) == [status |-> "ok", item |-> item]
Dropped == [status |-> "drop", item |-> NoItem]
Raised == [status |-> "raise", item |-> NoItem]

\* FileItem.add_info(key, value).
add_info(item, key, value) ==
    [item EXCEPT !.meta.additional_info = SetMember(@, key, value)]

text_key == <<"t", "e", "x", "t">>

\* item.data[text_key]: defined on a mapping that has the key.
HasText(data) ==
    /\ data.kind = "obj"
    /\ \E n \in 1..Len(data.members) : data.members[n].key = text_key
TextOf(data) ==
    data.members[CHOOSE n \in 1..Len(data.members) :
                    data.members[n].key = text_key].val

\* TextLength.enrich_item: len() of the text field; a record without the
\* field, or a text that has no len(), raises.
TextLength(item) ==
    IF ~HasText(item.data) THEN Raised
    ELSE LET t == TextOf(item.data)
         IN  IF t.kind = "str"
             THEN Kept(add_info(item, <<"text_length">>, Len(t.text)))
             ELSE IF t.kind = "obj"
             THEN Kept(add_info(item, <<"text_length">>, Len(t.members)))
             ELSE Raised

\* The per-item enrichers of the runs: TextLength, and two enrichers a
\* caller plugs in through BaseEnricher: one that drops every item, one
\* that drops the items without a text field.
PerItemKinds == {"TextLength", "DropAll", "KeepText"}

\* The batched enrichers of the runs: LanguageDetectionEnricher, and two
\* enrichers a caller plugs in through BaseBatchedEnricher: one that drops
\* every item, one that drops the items without a text field.
BatchedKinds == {"LanguageDetection", "BatchDropAll", "BatchKeepText"}

\* enricher.enrich_item(item) for the per-item enricher named kind.
enrich_item(kind, item) ==
    CASE kind = "TextLength" -> TextLength(item)
      [] kind = "DropAll" -> Dropped
      [] kind = "KeepText" ->
            IF HasText(item.data) THEN Kept(item) ELSE Dropped
      [] OTHER -> Kept(item)

\* The language detector is an external library: its answer for a text
\* depends on that text alone and is kept abstract, a code made of the
\* text's length.
Detect(text) == <<"lang_", ToString(Len(text))>>

\* What enrich_batch returns: one slot per item, or an exception.
Slots(slots) == [status |-> "ok", slots |-> slots]
BatchRaised == [status |-> "raise", slots |-> <<>>]

\* LanguageDetectionEnricher.enrich_batch (detect_multiple = False): the
\* texts of all the items are read first, then every item is annotated.
LanguageDetection(items) ==
    IF \E n \in 1..Len(items) :
           \/ ~HasText(items[n].data)
           \/ TextOf(items[n].data).kind # "str"
    THEN BatchRaised
    ELSE Slots([n \in 1..Len(items) |->
                  Kept(add_info(items[n], <<"language">>,
                                Detect(TextOf(items[n].data).text)))])

\* enricher.enrich_batch(items) for the batched enricher named kind.
enrich_batch(kind, items) ==
    CASE kind = "LanguageDetection" -> LanguageDetection(items)
      [] kind = "BatchDropAll" -> Slots([n \in 1..Len(items) |-> Dropped])
      [] kind = "BatchKeepText" ->
            Slots([n \in 1..Len(items) |->
                     IF HasText(items[n].data) THEN Kept(items[n])
                     ELSE Dropped])
      [] OTHER -> Slots([n \in 1..Len(items) |-> Kept(items[n])])

\* FileIndexer._enrich_item: the per-item enrichers in order, stopping at
\* the first that returns None.
RECURSIVE _enrich_item(_, _)
_enrich_item(enrichers, item) ==
    IF enrichers = <<>> THEN Kept(item)
    ELSE LET r == enrich_item(Head(enrichers), item)
         IN  IF r.status = "ok" THEN _enrich_item(Tail(enrichers), r.item)
             ELSE r

\* A variant that keeps every slot of the batch, None or not.
Unfiltered(slots) == [n \in 1..Len(slots) |-> slots[n].item]

\* [item for item in batch if item is not None].
RECURSIVE Survivors(_)
Survivors(slots) ==
    IF slots = <<>> THEN <<>>
    ELSE IF Head(slots).status = "ok"
    THEN <<Head(slots).item>> \o Survivors(Tail(slots))
    ELSE Survivors(Tail(slots))

\* FileIndexer._enrich_batch: the batched enrichers in order, each on what
\* the one before left, stopping when nothing is left.
RECURSIVE _enrich_batch(_, _)
batch_filtered(rest, kept) ==
    IF kept = <<>> THEN [status |-> "ok", batch |-> <<>>]
    ELSE _enrich_batch(rest, kept)

batch_next(rest, r) ==
    IF r.status = "raise" THEN [status |-> "raise", batch |-> <<>>]
    ELSE batch_filtered(rest, Survivors(r.slots))

_enrich_batch(batched_enrichers, batch) ==
    IF batched_enrichers = <<>> THEN [status |-> "ok", batch |-> batch]
    ELSE batch_next(Tail(batched_enrichers),
                    enrich_batch(Head(batched_enrichers), batch))

\* ItemMeta.as_dict: the row, a dict in insertion order.
meta_prefix == <<"meta_">>

\* A variant that flattens the enrichment keys without the prefix.
as_dict_unprefixed(meta) ==
    << [key |-> <<"start">>, val |-> meta.start],
       [key |-> <<"end">>, val |-> meta.end],
       [key |-> <<"filename">>, val |-> meta.filename] >>
    \o meta.additional_info

as_dict(meta) ==
    << [key |-> <<"start">>, val |-> meta.start],
       [key |-> <<"end">>, val |-> meta.end],
       [key |-> <<"filename">>, val |-> meta.filename] >>
    \o [n \in 1..Len(meta.additional_info) |->
          [key |-> meta_prefix \o meta.additional_info[n].key,
           val |-> meta.additional_info[n].val]]

\* FileIndexer._finish_batch.
_finish_batch(batch) == [n \in 1..Len(batch) |-> as_dict(batch[n].meta)]

\* FileIndexer.__init__: the enrichers are sorted into the per-item and
\* the batched ones, each list in the configured order.
FileIndexerOf(loader, batch_size, enrichers) ==
    [loader |-> loader, batch_size |-> batch_size,
     enrichers |-> SelectSeq(enrichers, LAMBDA k : k \in PerItemKinds),
     batched_enrichers |->
         SelectSeq(enrichers, LAMBDA k : k \in BatchedKinds)]

Rows(out) == [rows |-> out, err |-> FALSE]
RowsThenRaise(out) == [rows |-> out, err |-> TRUE]

\* FileIndexer.__call__ from scan state st on, batch being the buffer and
\* out the rows yielded so far: the rows it yields in all, and whether it
\* then raises instead of ending.
RECURSIVE index_from(_, _, _, _, _, _)

\* The batch has gone through the batched enrichers: its rows are yielded
\* and the buffer starts again.
index_flush(ix, filename, data, st, out, b) ==
    IF b.status # "ok" THEN RowsThenRaise(out)
    ELSE index_from(ix, filename, data, st, <<>>,
                    out \o _finish_batch(b.batch))

\* The item has gone through the per-item enrichers: a dropped item is
\* passed over, a kept one joins the buffer, which is flushed when full.
index_item(ix, filename, data, st, batch, out, e) ==
    IF e.status = "raise" THEN RowsThenRaise(out)
    ELSE IF e.status = "drop"
    THEN index_from(ix, filename, data, st, batch, out)
    ELSE IF Len(batch) + 1 < ix.batch_size
    THEN index_from(ix, filename, data, st, Append(batch, e.item), out)
    ELSE index_flush(ix, filename, data, st, out,
                     _enrich_batch(ix.batched_enrichers,
                                   Append(batch, e.item)))

\* After the loop: what is left in the buffer is flushed.
index_end(out, b) ==
    IF b.status # "ok" THEN RowsThenRaise(out)
    ELSE Rows(out \o _finish_batch(b.batch))

\* One pass of the loop over loader.iter_file_items(path), r being what
\* the scan gives next.
index_next(ix, filename, data, batch, out, r) ==
    CASE r.kind = "raise" -> RowsThenRaise(out)
      [] r.kind = "skip" -> index_from(ix, filename, data, r.st, batch, out)
      [] r.kind = "break" ->
            IF batch = <<>> THEN Rows(out)
            ELSE index_end(out, _enrich_batch(ix.batched_enrichers, batch))
      [] r.kind = "yield" ->
            index_item(ix, filename, data, r.st, batch, out,
                       _enrich_item(ix.enrichers, r.item))

index_from(ix, filename, data, st, batch, out) ==
    index_next(ix, filename, data, batch, out,
               iter_step(ix.loader, filename, data, st))

FileIndexer(ix, filename, data) ==
    index_from(ix, filename, data, ScanStart(ix.loader), <<>>, <<>>)

\* ------------------------------------------------------ discovery of files

\* Code-point order of the characters file names are made of.
CharOrder == <<"*", ".", "a", "b", "c", "j", "l", "n", "o", "s">>
Ord(c) == CHOOSE n \in 1..Len(CharOrder) : CharOrder[n] = c

\* String order of two names.
RECURSIVE NameLess(_, _)
NameLess(a, b) ==
    IF b = <<>> THEN FALSE
    ELSE IF a = <<>> THEN TRUE
    ELSE IF Head(a) = Head(b) THEN NameLess(Tail(a), Tail(b))
    ELSE Ord(Head(a)) < Ord(Head(b))

\* fnmatch of a name against a pattern: * is any run of characters.
RECURSIVE Match(_, _)
Match(pattern, name) ==
    IF pattern = <<>> THEN name = <<>>
    ELSE IF Head(pattern) = "*"
    THEN \/ Match(Tail(pattern), name)
         \/ name # <<>> /\ Match(pattern, Tail(name))
    ELSE /\ name # <<>>
         /\ Head(name) = Head(pattern)
         /\ Match(Tail(pattern), Tail(name))

\* sorted(): x put into the sorted list s, after its equals.
RECURSIVE Insert(_, _)
Insert(x, s) ==
    IF s = <<>> THEN <<x>>
    ELSE IF NameLess(x, Head(s)) THEN <<x>> \o s
    ELSE <<Head(s)>> \o Insert(x, Tail(s))

\* A variant that keeps the order the patterns gave.
unsorted(s) == s

RECURSIVE sorted(_)
sorted(s) ==
    IF s = <<>> THEN <<>>
    ELSE Insert(s[Len(s)], sorted(SubSeq(s, 1, Len(s) - 1)))

\* A set of names as a list, in name order.
RECURSIVE Listing(_)
Listing(S) ==
    IF S = {} THEN <<>>
    ELSE LET x == CHOOSE y \in S : \A z \in S : ~NameLess(z, y)
         IN  <<x>> \o Listing(S \ {x})

\* The orders a set can be listed in.
Orders(S) ==
    {o \in [1..Cardinality(S) -> S] :
        \A i, j \in 1..Cardinality(S) : i # j => o[i] # o[j]}

\* dataset_root.glob(pattern): the names under the root that match, each
\* once, in the order the directory lists them in, which is any order.
glob_one(names, pattern) == SelectSeq(names, LAMBDA n : Match(pattern, n))

\* path for pattern in self.glob for path in dataset_root.glob(pattern).
RECURSIVE glob_all(_, _)
glob_all(names, patterns) ==
    IF patterns = <<>> THEN <<>>
    ELSE glob_one(names, Head(patterns)) \o glob_all(names, Tail(patterns))

\* DirectoryIndexer.__call__'s paths.
discover(names, patterns) == sorted(glob_all(names, patterns))

\* ------------------------------------------------------------ the reader

\* mem_map[start:end].
Slice(data, start, end) == SubSeq(data, start + 1, end)

\* IndexedDataset.__getitem__ (dextro/torch.py) on a row of the index: the
\* slice of the file's mapping, decoded by the loader.
getitem(loader, data, start, end) == load_item(loader, Slice(data, start, end))

\* ------------------------------------------------------------------ state

VARIABLES
    \* the run's configuration and the directory
    files,          \* name -> bytes of each file under the root
    glob,           \* DirectoryIndexer.glob
    num_workers,    \* DirectoryIndexer.num_workers
    max_iter,       \* index_dataset's max_iter
    indexer,        \* the FileIndexer
    \* the main process: index_dataset and the generator it consumes
    pc,             \* where DirectoryIndexer.__call__ stands
    outcome,        \* "running", "table" (returned) or "error" (raised)
    paths,          \* the discovered paths
    seq_i,          \* sequential mode: index in paths of the current file
    runs,           \* what each path's FileIndexer gives when it is run
    seq_n,          \* sequential mode: rows of that file yielded so far
    remaining,      \* parallel mode: the pending-file counter
    join_i,         \* parallel mode: index of the future being waited for
    table,          \* list(records): the rows the consumer has received
    \* the pool
    futures,        \* state of each apply_async task
    next_task,      \* first task no worker has taken
    workers,        \* the busy worker processes, by the task each runs
    queue,          \* the manager's queue
    \* history
    origin,         \* for each row of table, the task that put it
    opened,         \* the path indices whose files were opened, in order
    raised,         \* a FileIndexer has raised
    \* one loader scanning one file (ScanSpec, PipeSpec)
    scan_loader, scan_data, scan_st, scan_items, scan_pc,
    \* one FileIndexer driving one file, stage by stage (PipeSpec)
    pipe_pc,        \* where FileIndexer.__call__ is
    pipe_cur,       \* the item going through the per-item enrichers
    pipe_k,         \* the next stage to call, by position
    pipe_batch,     \* the buffer of per-item survivors
    pipe_out,       \* the rows yielded
    pipe_log,       \* the calls made to enrichers, in order
    \* one reader over a persisted index (ReadSpec)
    rd_stored,      \* index.parquet: the persisted table
    rd_filter,      \* the index_filter the caller passes
    rd_class,       \* which IndexedDataset: dextro.dataset or dextro.torch
    rd_index,       \* self.index, the rows after the filter
    rd_handles,     \* self.file_handles: filename -> state of the file object
    rd_maps,        \* self.mem_maps: filename -> state of the mapping
    rd_log,         \* the opens, mappings and closes made, in order
    rd_pc,          \* the reader's life
    rd_got          \* what the last lookup gave

config == <<files, glob, num_workers, max_iter, indexer>>
main ==
    <<pc, outcome, paths, seq_i, runs, seq_n, remaining, join_i, table>>
pool == <<futures, next_task, workers, queue>>
history == <<origin, opened, raised>>
scanning == <<scan_loader, scan_data, scan_st, scan_items, scan_pc>>
piping == <<pipe_pc, pipe_cur, pipe_k, pipe_batch, pipe_out, pipe_log>>
reading ==
    <<rd_stored, rd_filter, rd_class, rd_index, rd_handles, rd_maps, rd_log,
      rd_pc, rd_got>>
aside == <<scanning, piping, reading>>
vars == <<config, main, pool, history, scanning, piping, reading>>

\* ------------------------------------------------------ the runs explored

\* A name or a pattern, character by character.
a_jsonl == <<"a", ".", "j", "s", "o", "n", "l">>
b_json == <<"b", ".", "j", "s", "o", "n">>
c_jsonl == <<"c", ".", "j", "s", "o", "n", "l">>
star_jsonl == <<"*", ".", "j", "s", "o", "n", "l">>
star_json == <<"*", ".", "j", "s", "o", "n">>
a_star == <<"a", "*">>

\* {"text":"<chars>"} as bytes.
TextRecord(chars) ==
    <<"{", QT, "t", "e", "x", "t", QT, ":", QT>> \o chars \o <<QT, "}">>

\* The files a directory may hold: two records that every stage accepts
\* (no final newline, as the test fixture writes them); a record followed
\* by one without a text field; a record followed by a line that is not
\* JSON.
Catalogue ==
    (a_jsonl :> TextRecord(<<"h", "i">>) \o <<LF>> \o TextRecord(<<"h">>))
    @@ (b_json :> TextRecord(<<"x">>) \o <<LF, "2", LF>>)
    @@ (c_jsonl :> TextRecord(<<"t">>) \o <<CR, LF, "1", SP, "2", LF>>)

Directories == {[n \in S |-> Catalogue[n]] : S \in SUBSET DOMAIN Catalogue}

\* The default patterns; patterns that overlap on a.jsonl; a single pattern.
GlobOptions ==
    {<<star_jsonl, star_json>>, <<star_jsonl, a_star>>, <<star_json>>}

OptionalInts(n) == {Nothing} \cup {Some(k) : k \in 0..n}

EnricherOptions == {<<>>, <<"TextLength">>}

MainIdle ==
    /\ pc = "idle" /\ outcome = "idle" /\ paths = <<>>
    /\ seq_i = 0 /\ runs = <<>> /\ seq_n = 0
    /\ remaining = 0 /\ join_i = 0 /\ table = <<>>
    /\ futures = <<>> /\ next_task = 0 /\ workers = <<>> /\ queue = <<>>
    /\ origin = <<>> /\ opened = <<>> /\ raised = FALSE

ScanIdle ==
    /\ scan_loader = default_loader /\ scan_data = <<>>
    /\ scan_st = ScanStart(default_loader) /\ scan_items = <<>>
    /\ scan_pc = "idle"

PipeIdle ==
    /\ pipe_pc = "idle" /\ pipe_cur = NoItem /\ pipe_k = 0
    /\ pipe_batch = <<>> /\ pipe_out = <<>> /\ pipe_log = <<>>

NoResult == [status |-> "none", idx |-> 0, val |-> NoValue]

ReadIdle ==
    /\ rd_stored = <<>> /\ rd_filter = "none"
    /\ rd_class = "none" /\ rd_index = <<>>
    /\ rd_handles = <<>> /\ rd_maps = <<>> /\ rd_log = <<>>
    /\ rd_pc = "idle" /\ rd_got = NoResult

\* index_dataset has been called: the indexers exist, the generator has
\* not run yet.
Init ==
    /\ files \in Directories
    /\ glob \in GlobOptions
    /\ num_workers \in OptionalInts(MaxWorkers)
    /\ max_iter \in OptionalInts(MaxIter)
    /\ indexer \in {FileIndexerOf(default_loader, b, e) :
                        b \in 1..MaxBatch, e \in EnricherOptions}
    /\ pc = "call" /\ outcome = "running" /\ paths = <<>>
    /\ seq_i = 0 /\ runs = <<>> /\ seq_n = 0
    /\ remaining = 0 /\ join_i = 0 /\ table = <<>>
    /\ futures = <<>> /\ next_task = 0 /\ workers = <<>> /\ queue = <<>>
    /\ origin = <<>> /\ opened = <<>> /\ raised = FALSE
    /\ ScanIdle /\ PipeIdle /\ ReadIdle

\* ------------------------------------------------------------ index_dataset

\* islice(records, max_iter), applied only when max_iter is truthy: it
\* stops once it has passed max_iter rows on.
islice_done(cap, count) == Truthy(cap) /\ count >= cap.v

\* list(records) asks the generator for another row.
Wanted == outcome = "running" /\ ~islice_done(max_iter, Len(table))

\* self.indexer(path) for path number i: the rows it gives, and whether it
\* then raises.  The files do not change during a run, so what a path's
\* FileIndexer gives is settled when the path is found.
RunOf(i) == runs[i]

\* ------------------------------------------------ DirectoryIndexer.__call__

\* A variant whose pending-file counter starts at the number of workers.
DiscoveredCountingWorkers(found) ==
    /\ paths' = found
    /\ runs' = [i \in 1..Len(found) |->
                  FileIndexer(indexer, found[i], files[found[i]])]
    /\ IF found = <<>>
       THEN /\ pc' = "done" /\ outcome' = "error"
            /\ UNCHANGED <<seq_i, remaining, pool>>
       ELSE IF Truthy(num_workers)
       THEN /\ pc' = "drain" /\ outcome' = outcome
            /\ remaining' = num_workers.v
            /\ futures' = [i \in 1..Len(found) |-> "queued"]
            /\ next_task' = 1
            /\ workers' = <<>>
            /\ UNCHANGED <<seq_i, queue>>
       ELSE /\ pc' = "seq" /\ outcome' = outcome
            /\ seq_i' = 1
            /\ UNCHANGED <<remaining, pool>>

\* A variant without the check for an empty list of paths.
DiscoveredUnchecked(found) ==
    /\ paths' = found
    /\ runs' = [i \in 1..Len(found) |->
                  FileIndexer(indexer, found[i], files[found[i]])]
    /\ IF Truthy(num_workers)
       THEN /\ pc' = "drain" /\ outcome' = outcome
            /\ remaining' = Len(found)
            /\ futures' = [i \in 1..Len(found) |-> "queued"]
            /\ next_task' = 1
            /\ workers' = <<>>
            /\ UNCHANGED <<seq_i, queue>>
       ELSE /\ pc' = "seq" /\ outcome' = outcome
            /\ seq_i' = 1
            /\ UNCHANGED <<remaining, pool>>

\* The generator's first step: discovery, the empty check, and the branch
\* on num_workers (the pool, the queue and one task per path).
Discovered(found) ==
    /\ paths' = found
    /\ runs' = [i \in 1..Len(found) |->
                  FileIndexer(indexer, found[i], files[found[i]])]
    /\ IF found = <<>>
       THEN /\ pc' = "done" /\ outcome' = "error"
            /\ UNCHANGED <<seq_i, remaining, pool>>
       ELSE IF Truthy(num_workers)
       THEN /\ pc' = "drain" /\ outcome' = outcome
            /\ remaining' = Len(found)
            /\ futures' = [i \in 1..Len(found) |-> "queued"]
            /\ next_task' = 1
            /\ workers' = <<>>
            /\ UNCHANGED <<seq_i, queue>>
       ELSE /\ pc' = "seq" /\ outcome' = outcome
            /\ seq_i' = 1
            /\ UNCHANGED <<remaining, pool>>

\* A variant whose paths are left in the order the patterns gave.
DiscoverAsListed ==
    /\ pc = "call" /\ Wanted
    /\ \E names \in Orders(DOMAIN files) :
           Discovered(glob_all(names, glob))
    /\ UNCHANGED <<config, seq_n, join_i, table, history, aside>>

\* The generator's first step, the directory listing its names in some
\* order.
Discover ==
    /\ pc = "call" /\ Wanted
    /\ \E names \in Orders(DOMAIN files) :
           Discovered(discover(names, glob))
    /\ UNCHANGED <<config, seq_n, join_i, table, history, aside>>

\* Sequential mode: self.indexer(path) starts on the current path.
SeqOpen ==
    /\ pc = "seq" /\ Wanted
    /\ seq_i <= Len(paths) /\ Len(opened) < seq_i
    /\ opened' = Append(opened, seq_i)
    /\ UNCHANGED <<config, pc, outcome, paths, runs, seq_i, seq_n, remaining,
                   join_i, table, pool, origin, raised, aside>>

\* Sequential mode: the current file's next row is yielded.
SeqYield ==
    /\ pc = "seq" /\ Wanted
    /\ seq_i <= Len(paths) /\ Len(opened) = seq_i
    /\ seq_n < Len(RunOf(seq_i).rows)
    /\ table' = Append(table, RunOf(seq_i).rows[seq_n + 1])
    /\ origin' = Append(origin, seq_i)
    /\ seq_n' = seq_n + 1
    /\ UNCHANGED <<config, pc, outcome, paths, seq_i, runs, remaining,
                   join_i, pool, opened, raised, aside>>

\* Sequential mode: the current file is exhausted; on to the next path.
SeqExhaust ==
    /\ pc = "seq" /\ Wanted
    /\ seq_i <= Len(paths) /\ Len(opened) = seq_i
    /\ seq_n = Len(RunOf(seq_i).rows) /\ ~RunOf(seq_i).err
    /\ seq_i' = seq_i + 1 /\ seq_n' = 0
    /\ UNCHANGED <<config, pc, outcome, paths, runs, remaining, join_i,
                   table, pool, history, aside>>

\* Sequential mode: the FileIndexer raises; the exception leaves the
\* generator, list() and index_dataset.
SeqRaise ==
    /\ pc = "seq" /\ Wanted
    /\ seq_i <= Len(paths) /\ Len(opened) = seq_i
    /\ seq_n = Len(RunOf(seq_i).rows) /\ RunOf(seq_i).err
    /\ pc' = "done" /\ outcome' = "error" /\ raised' = TRUE
    /\ UNCHANGED <<config, paths, seq_i, runs, seq_n, remaining, join_i,
                   table, pool, origin, opened, aside>>

\* Sequential mode: no path is left; the generator ends.
SeqEnd ==
    /\ pc = "seq" /\ Wanted
    /\ seq_i > Len(paths)
    /\ pc' = "done"
    /\ UNCHANGED <<config, outcome, paths, seq_i, runs, seq_n, remaining,
                   join_i, table, pool, history, aside>>

Sentinel == [task |-> 0, row |-> <<>>]

\* A variant whose queue hands out the newest entry first.
GetRowLast ==
    /\ pc = "drain" /\ Wanted
    /\ remaining > 0 /\ queue # <<>> /\ queue[Len(queue)].task # 0
    /\ queue' = SubSeq(queue, 1, Len(queue) - 1)
    /\ table' = Append(table, queue[Len(queue)].row)
    /\ origin' = Append(origin, queue[Len(queue)].task)
    /\ UNCHANGED <<config, pc, outcome, paths, seq_i, runs, seq_n,
                   remaining, join_i, futures, next_task, workers, opened,
                   raised, aside>>

\* Parallel mode: queue.get() returns a row, which is yielded.
GetRow ==
    /\ pc = "drain" /\ Wanted
    /\ remaining > 0 /\ queue # <<>> /\ Head(queue).task # 0
    /\ queue' = Tail(queue)
    /\ table' = Append(table, Head(queue).row)
    /\ origin' = Append(origin, Head(queue).task)
    /\ UNCHANGED <<config, pc, outcome, paths, seq_i, runs, seq_n,
                   remaining, join_i, futures, next_task, workers, opened,
                   raised, aside>>

\* Parallel mode: queue.get() returns a sentinel.
GetSentinel ==
    /\ pc = "drain" /\ Wanted
    /\ remaining > 0 /\ queue # <<>> /\ Head(queue).task = 0
    /\ queue' = Tail(queue)
    /\ remaining' = remaining - 1
    /\ UNCHANGED <<config, pc, outcome, paths, seq_i, runs, seq_n, join_i,
                   table, futures, next_task, workers, history, aside>>

\* Parallel mode: the counter is zero; the drain loop ends.
DrainEnd ==
    /\ pc = "drain" /\ Wanted
    /\ remaining = 0
    /\ pc' = "join" /\ join_i' = 1
    /\ UNCHANGED <<config, outcome, paths, seq_i, runs, seq_n, remaining,
                   table, pool, history, aside>>

\* Parallel mode: future.get() on the next handle returns, or raises what
\* its task raised.
JoinOne ==
    /\ pc = "join" /\ Wanted
    /\ join_i <= Len(futures) /\ futures[join_i] \in {"ok", "error"}
    /\ IF futures[join_i] = "ok"
       THEN join_i' = join_i + 1 /\ UNCHANGED <<pc, outcome>>
       ELSE pc' = "done" /\ outcome' = "error" /\ UNCHANGED join_i
    /\ UNCHANGED <<config, paths, seq_i, runs, seq_n, remaining, table,
                   pool, history, aside>>

\* Parallel mode: every handle has returned; the pool is left and the
\* generator ends.
JoinEnd ==
    /\ pc = "join" /\ Wanted
    /\ join_i > Len(futures)
    /\ pc' = "done"
    /\ UNCHANGED <<config, outcome, paths, seq_i, runs, seq_n, remaining,
                   join_i, table, pool, history, aside>>

\* list(records) is complete (the generator ended, or islice stopped) and
\* the table is built from it.
Materialize ==
    /\ outcome = "running"
    /\ pc = "done" \/ islice_done(max_iter, Len(table))
    /\ outcome' = "table"
    /\ UNCHANGED <<config, pc, paths, seq_i, runs, seq_n, remaining,
                   join_i, table, pool, history, aside>>

\* index_dataset returns while the generator is suspended at a yield: the
\* generator is closed, which leaves the with block and terminates the
\* pool.
Close ==
    /\ outcome = "table" /\ pc \in {"seq", "drain"}
    /\ pc' = "closed"
    /\ workers' = <<>>
    /\ UNCHANGED <<config, outcome, paths, seq_i, runs, seq_n, remaining,
                   join_i, table, futures, next_task, queue, history,
                   aside>>

\* ------------------------------------------------------------- the workers

PoolAlive == pc \in {"drain", "join"}

\* A worker process running a task: the rows its FileIndexer gives,
\* whether it then raises, and how many rows are put.
Running(run) ==
    [phase |-> "run", rows |-> run.rows, err |-> run.err, sent |-> 0]

\* The busy workers without the one that ran task i.
Freed(i) == [j \in DOMAIN workers \ {i} |-> workers[j]]

\* A free pool worker takes the next task: _collect_items(path, queue)
\* starts and self.indexer(path) opens the file.
TakeTask ==
    /\ PoolAlive
    /\ Cardinality(DOMAIN workers) < num_workers.v
    /\ next_task <= Len(paths)
    /\ workers' = [j \in DOMAIN workers \cup {next_task} |->
                     IF j = next_task THEN Running(RunOf(next_task))
                     ELSE workers[j]]
    /\ futures' = [futures EXCEPT ![next_task] = "running"]
    /\ next_task' = next_task + 1
    /\ opened' = Append(opened, next_task)
    /\ UNCHANGED <<config, main, queue, origin, raised, aside>>

\* A variant whose queue holds one entry: a put waits for the coordinator
\* to take the entry before.
PutRowWhenTaken(i) ==
    /\ PoolAlive /\ workers[i].phase = "run"
    /\ workers[i].sent < Len(workers[i].rows)
    /\ queue = <<>>
    /\ queue' = Append(queue, [task |-> i,
                               row |-> workers[i].rows[workers[i].sent + 1]])
    /\ workers' = [workers EXCEPT ![i].sent = @ + 1]
    /\ UNCHANGED <<config, main, futures, next_task, history, aside>>

\* A variant that follows every row with a sentinel.
PutRowThenSentinel(i) ==
    /\ PoolAlive /\ workers[i].phase = "run"
    /\ workers[i].sent < Len(workers[i].rows)
    /\ queue' = queue \o <<[task |-> i,
                             row |-> workers[i].rows[workers[i].sent + 1]],
                            Sentinel>>
    /\ workers' = [workers EXCEPT ![i].sent = @ + 1]
    /\ UNCHANGED <<config, main, futures, next_task, history, aside>>

\* _collect_items: queue.put(item) for the next row of the file.
PutRow(i) ==
    /\ PoolAlive /\ workers[i].phase = "run"
    /\ workers[i].sent < Len(workers[i].rows)
    /\ queue' = Append(queue, [task |-> i,
                               row |-> workers[i].rows[workers[i].sent + 1]])
    /\ workers' = [workers EXCEPT ![i].sent = @ + 1]
    /\ UNCHANGED <<config, main, futures, next_task, history, aside>>

\* A variant that ends a file without putting the sentinel.
PutSentinelOmitted(i) ==
    /\ PoolAlive /\ workers[i].phase = "run"
    /\ workers[i].sent = Len(workers[i].rows) /\ ~workers[i].err
    /\ workers' = [workers EXCEPT ![i].phase = "return"]
    /\ UNCHANGED <<config, main, futures, next_task, queue, history,
                   aside>>

\* _collect_items: the file is done; queue.put(None).
PutSentinel(i) ==
    /\ PoolAlive /\ workers[i].phase = "run"
    /\ workers[i].sent = Len(workers[i].rows) /\ ~workers[i].err
    /\ queue' = Append(queue, Sentinel)
    /\ workers' = [workers EXCEPT ![i].phase = "return"]
    /\ UNCHANGED <<config, main, futures, next_task, history, aside>>

\* _collect_items returns: the task's handle is set, the worker is free.
TaskReturn(i) ==
    /\ PoolAlive /\ workers[i].phase = "return"
    /\ futures' = [futures EXCEPT ![i] = "ok"]
    /\ workers' = Freed(i)
    /\ UNCHANGED <<config, main, next_task, queue, history, aside>>

\* The FileIndexer raises inside _collect_items: the pool stores the
\* exception in the task's handle; no sentinel is put.
TaskRaise(i) ==
    /\ PoolAlive /\ workers[i].phase = "run"
    /\ workers[i].sent = Len(workers[i].rows) /\ workers[i].err
    /\ futures' = [futures EXCEPT ![i] = "error"]
    /\ workers' = Freed(i)
    /\ raised' = TRUE
    /\ UNCHANGED <<config, main, next_task, queue, origin, opened, aside>>

Worker(i) == PutRow(i) \/ PutSentinel(i) \/ TaskReturn(i) \/ TaskRaise(i)

\* The generator once the paths are found.
Generator ==
    \/ SeqOpen \/ SeqYield \/ SeqExhaust \/ SeqRaise \/ SeqEnd
    \/ GetRow \/ GetSentinel \/ DrainEnd \/ JoinOne \/ JoinEnd

Coordinator == Discover \/ Generator

Consumer == Materialize \/ Close

Workers == \E i \in DOMAIN workers : Worker(i)

Next ==
    \/ Coordinator
    \/ Consumer
    \/ TakeTask
    \/ Workers

Spec == Init /\ [][Next]_vars

\* The generator and the consumer run in the calling process, the pool
\* hands a queued task to a free worker, and the operating system runs
\* the worker processes: none is held back for ever while it can step.
\* (Nothing is asked of the first step, discovery: the properties checked
\* under FairSpec start after it.)
FairSpec ==
    /\ Spec
    /\ WF_vars(Generator)
    /\ WF_vars(Consumer)
    /\ WF_vars(TakeTask)
    /\ WF_vars(Workers)

\* ---------------------------------------------- one loader scanning one file

\* The bytes the scanned files are made of: digits (JSON numbers and CSV
\* fields), the delimiter, and the three whitespace bytes.
ScanBytes == {"1", "2", ",", SP, CR, LF}

Contents == UNION {[1..n -> ScanBytes] : n \in 0..MaxLen}

col_t == <<"t">>
col_x == <<"x">>

\* JSONLinesLoader(), CSVLoader(), CSVLoader(header=None),
\* CSVLoader(header=1) and CSVLoader(names=['t', 'x']).
ScanLoaders ==
    {JSONLinesLoader,
     CSVLoader(Some(0), NoNames, ","),
     CSVLoader(Nothing, NoNames, ","),
     CSVLoader(Some(1), NoNames, ","),
     CSVLoader(Some(0), SomeNames(<<col_t, col_x>>), ",")}

scan_name == a_jsonl

\* loader.iter_file_items(path) has been called on a file.
ScanInit ==
    /\ files = <<>> /\ glob = <<>>
    /\ num_workers = Nothing /\ max_iter = Nothing
    /\ indexer = FileIndexerOf(default_loader, 1, <<>>)
    /\ MainIdle /\ PipeIdle /\ ReadIdle
    /\ scan_loader \in ScanLoaders
    /\ scan_data \in Contents
    /\ scan_st = ScanStart(scan_loader)
    /\ scan_items = <<>>
    /\ scan_pc = "scan"

\* What the next pass of the loader's loop does.
ScanPass == iter_step(scan_loader, scan_name, scan_data, scan_st)

\* The pass yields an item.
ScanYield ==
    /\ scan_pc = "scan" /\ ScanPass.kind = "yield"
    /\ scan_items' = Append(scan_items, ScanPass.item)
    /\ scan_st' = ScanPass.st
    /\ UNCHANGED <<config, main, pool, history, piping, reading,
                   scan_loader, scan_data,
                   scan_pc>>

\* The pass consumes a line without yielding (CSV header lines).
ScanSkip ==
    /\ scan_pc = "scan" /\ ScanPass.kind = "skip"
    /\ scan_st' = ScanPass.st
    /\ UNCHANGED <<config, main, pool, history, piping, reading,
                   scan_loader, scan_data,
                   scan_items, scan_pc>>

\* The pass reads an empty line (or the end of the file): the scan ends.
ScanBreak ==
    /\ scan_pc = "scan" /\ ScanPass.kind = "break"
    /\ scan_pc' = "end"
    /\ UNCHANGED <<config, main, pool, history, piping, reading,
                   scan_loader, scan_data,
                   scan_st, scan_items>>

\* Decoding the line raises: the scan ends with the exception.
ScanRaise ==
    /\ scan_pc = "scan" /\ ScanPass.kind = "raise"
    /\ scan_pc' = "raised"
    /\ scan_st' = ScanPass.st
    /\ UNCHANGED <<config, main, pool, history, piping, reading,
                   scan_loader, scan_data,
                   scan_items>>

ScanNext == ScanYield \/ ScanSkip \/ ScanBreak \/ ScanRaise

ScanSpec == ScanInit /\ [][ScanNext]_vars

\* ------------------------------------------------------ the runs, measured

Range(s) == {s[k] : k \in 1..Len(s)}
Count(r, s) == Cardinality({k \in 1..Len(s) : s[k] = r})
SameBag(s, t) == \A r \in Range(s) \cup Range(t) : Count(r, s) = Count(r, t)
IsPrefix(s, t) == Len(s) <= Len(t) /\ SubSeq(t, 1, Len(s)) = s
Min(a, b) == IF a <= b THEN a ELSE b

Parallel == Truthy(num_workers)

\* The rows of all the first n paths' files, file after file.
RECURSIVE AllRows(_)
AllRows(n) == IF n = 0 THEN <<>> ELSE AllRows(n - 1) \o RunOf(n).rows

\* What sequential mode yields from path i on: each file's rows, up to
\* the first file whose FileIndexer raises.
RECURSIVE SequentialFrom(_)
SequentialNext(i, run) ==
    IF run.err THEN run.rows ELSE run.rows \o SequentialFrom(i + 1)

SequentialFrom(i) ==
    IF i > Len(paths) THEN <<>> ELSE SequentialNext(i, RunOf(i))

\* The rows of table that task i put, in the order they were received.
Received(i) ==
    LET at == SelectSeq([k \in 1..Len(table) |-> k], LAMBDA k : origin[k] = i)
    IN  [n \in 1..Len(at) |-> table[at[n]]]

NoTaskRaises == \A i \in 1..Len(paths) : ~RunOf(i).err

\* Rows of two files reached the consumer interleaved.
Interleaved ==
    \E k \in 1..(Len(origin) - 2) :
        origin[k] = origin[k + 2] /\ origin[k] # origin[k + 1]

\* ------------------------------------------------------------------ claims

\* C1: in parallel mode, once the drain loop has ended (the pending-file
\* counter is zero), the rows the consumer received are, as a multiset,
\* the rows sequential mode yields for the same paths, which are all the
\* rows of all the files: none lost, none duplicated.
C1_DrainedExactlyOnce ==
    (Parallel /\ pc \in {"join", "done"} /\ paths # <<>>) =>
        /\ remaining = 0
        /\ SameBag(table, SequentialFrom(1))
        /\ SameBag(table, AllRows(Len(paths)))

C1_Witness ==
    /\ Parallel /\ pc = "join" /\ num_workers.v = 2
    /\ Len(paths) >= 2 /\ Interleaved

\* C2 as stated: in parallel mode, once every task has finished its file
\* without raising, the counter reaches zero and the generator ends.
C2_TerminatesWhateverTheCap ==
    (Parallel /\ paths # <<>> /\ \A i \in 1..Len(futures) : futures[i] = "ok")
        ~> (pc = "done" /\ remaining = 0)

\* The consumer takes every row: there is no cap, or the cap exceeds the
\* rows the files hold.
ConsumerExhausts ==
    Truthy(max_iter) => max_iter.v > Len(AllRows(Len(paths)))

\* C2, amended: in parallel mode, if no task raises and the consumer takes
\* every row, then under fair scheduling the counter reaches zero, every
\* handle is joined and the run ends with a table.
C2_Terminates ==
    (pc = "drain" /\ NoTaskRaises /\ ConsumerExhausts) ~>
        (pc = "done" /\ remaining = 0 /\ join_i > Len(futures)
         /\ outcome = "table")

C2_Witness ==
    /\ Parallel /\ pc = "done" /\ outcome = "table"
    /\ Len(paths) > num_workers.v
    /\ remaining = 0 /\ join_i > Len(futures)

\* C3: when a FileIndexer raises (a record that does not decode, an
\* enricher that fails), the run ends with an error.
C3_ErrorPropagates == raised ~> (outcome = "error")

\* C4: with a cap K, the table has exactly min(K, T) rows, T being the
\* rows available.
C4_CapIsExact ==
    (outcome = "table" /\ max_iter.some /\ paths # <<>>) =>
        Len(table) = Min(max_iter.v, Len(AllRows(Len(paths))))

\* C5: in parallel mode the rows received from one file are, in order,
\* the first rows its FileIndexer emits.
C5_FileOrder ==
    Parallel => \A i \in Range(origin) : IsPrefix(Received(i), RunOf(i).rows)

C5_Witness ==
    /\ Parallel /\ Interleaved
    /\ \E i \in 1..Len(paths) : Len(Received(i)) >= 2

\* C6: in sequential mode the paths are in name order, the files are
\* opened one at a time in that order, a file is opened only when the
\* rows of all the files before it have been yielded, and the rows
\* yielded are, in order, each file's rows, file after file.
C6_SequentialOrder ==
    (~Parallel /\ pc # "call") =>
        /\ \A i \in 1..(Len(paths) - 1) : ~NameLess(paths[i + 1], paths[i])
        /\ opened = [k \in 1..Len(opened) |-> k]
        /\ IsPrefix(table, SequentialFrom(1))
        /\ Len(table) <= Len(AllRows(Len(opened)))
        /\ opened # <<>> => Len(table) >= Len(AllRows(Len(opened) - 1))
        /\ pc = "done" => table = SequentialFrom(1)

C6_Witness ==
    /\ ~Parallel /\ pc = "done" /\ outcome = "table"
    /\ Len(paths) >= 2 /\ Len(opened) = Len(paths) /\ Len(table) >= 4

\* C7: the list of paths names no file twice.
C7_Deduplicated ==
    pc # "call" =>
        \A i, j \in 1..Len(paths) : i # j => paths[i] # paths[j]

\* No file under the root matches a pattern.
NoMatch ==
    \A n \in DOMAIN files : \A k \in 1..Len(glob) : ~Match(glob[k], n)

\* C8: when no file matches, no file is opened, no task is submitted, no
\* worker runs, nothing is queued, no row is yielded and no table is
\* made, and once discovery has run the run has failed, in either mode.
C8_NoMatchingFiles ==
    NoMatch =>
        /\ opened = <<>> /\ futures = <<>> /\ workers = <<>> /\ queue = <<>>
        /\ table = <<>> /\ outcome # "table"
        /\ pc # "call" => (pc = "done" /\ outcome = "error")

C8_Witness ==
    /\ NoMatch /\ DOMAIN files # {} /\ Parallel
    /\ pc = "done" /\ outcome = "error"

\* C9: for every item the JSON-lines scan yields, the bytes [start, end)
\* of the file are the line without its surrounding whitespace and its
\* delimiter, and the reader's lookup decodes them to the item's record.
C9_RoundTrip ==
    scan_loader.kind = "jsonl" =>
        \A k \in 1..Len(scan_items) :
            /\ Slice(scan_data, scan_items[k].meta.start,
                     scan_items[k].meta.end)
                   = strip(readline(scan_data, scan_items[k].meta.start))
            /\ getitem(scan_loader, scan_data, scan_items[k].meta.start,
                       scan_items[k].meta.end)
                   = [ok |-> TRUE, val |-> scan_items[k].data]

\* The bytes the first k items span.
RECURSIVE SpanSum(_)
SpanSum(k) ==
    IF k = 0 THEN 0
    ELSE SpanSum(k - 1)
             + (scan_items[k].meta.end - scan_items[k].meta.start)

\* C10: the locations a scan yields lie in the file with start <= end,
\* come in non-decreasing order of start, do not overlap, and span no
\* more bytes than the file has.
C10_Locations ==
    /\ \A k \in 1..Len(scan_items) :
           /\ 0 <= scan_items[k].meta.start
           /\ scan_items[k].meta.start <= scan_items[k].meta.end
           /\ scan_items[k].meta.end <= Len(scan_data)
    /\ \A k \in 1..(Len(scan_items) - 1) :
           /\ scan_items[k].meta.start <= scan_items[k + 1].meta.start
           /\ scan_items[k].meta.end <= scan_items[k + 1].meta.start
    /\ SpanSum(Len(scan_items)) <= Len(scan_data)

C10_Witness ==
    /\ scan_loader.kind = "csv" /\ scan_pc = "end"
    /\ Len(scan_items) >= 2
    /\ \E k \in 1..Len(scan_data) : scan_data[k] = CR

\* ------------------------------------------- one reader over a stored index

\* The directories read: partition files whose records all hold a text.
ReadCatalogue ==
    (a_jsonl :> TextRecord(<<"h", "i">>) \o <<LF>> \o TextRecord(<<"h">>))
    @@ (b_json :> TextRecord(<<"x">>) \o <<LF>> \o TextRecord(<<"t">>)
                   \o <<LF>>)

ReadDirectories ==
    {[n \in S |-> ReadCatalogue[n]] : S \in SUBSET DOMAIN ReadCatalogue \ {{}}}

\* list(records) of a sequential index_dataset run over the names, in
\* order, that meets no error.
RECURSIVE TableOf(_, _, _)
TableOf(ix, fs, names) ==
    IF names = <<>> THEN <<>>
    ELSE FileIndexer(ix, Head(names), fs[Head(names)]).rows
             \o TableOf(ix, fs, Tail(names))

\* row[key] of a row of the table.
Field(row, key) ==
    row[CHOOSE n \in 1..Len(row) : row[n].key = key].val

\* The filters a caller passes: none, pl.col("filename") == "a.jsonl",
\* pl.col("start") == 0.
Filters == {"none", "filename_a", "start_0"}

\* self.index.filter(index_filter).
Filtered(f, rows) ==
    CASE f = "filename_a" ->
            SelectSeq(rows, LAMBDA r : Field(r, <<"filename">>) = a_jsonl)
      [] f = "start_0" ->
            SelectSeq(rows, LAMBDA r : Field(r, <<"start">>) = 0)
      [] OTHER -> rows

\* self.index["filename"].unique(): the distinct filenames of the index.
Filenames(rows) == {Field(rows[n], <<"filename">>) : n \in 1..Len(rows)}

\* A table was built by index_dataset and written to index.parquet; no
\* reader exists yet.
ReadInit ==
    /\ files \in ReadDirectories
    /\ glob = <<star_jsonl, star_json>>
    /\ num_workers = Nothing /\ max_iter = Nothing
    /\ indexer \in {FileIndexerOf(default_loader, 1, e) :
                        e \in EnricherOptions}
    /\ MainIdle /\ ScanIdle /\ PipeIdle
    /\ rd_stored = TableOf(indexer, files,
                            discover(Listing(DOMAIN files), glob))
    /\ rd_filter \in Filters
    /\ rd_class \in {"dataset", "torch"}
    /\ rd_index = <<>> /\ rd_handles = <<>> /\ rd_maps = <<>>
    /\ rd_log = <<>> /\ rd_pc = "new" /\ rd_got = NoResult

\* The events of the log.
Opened(name) == [op |-> "open", name |-> name, mode |-> "r+b"]
Mapped(name) == [op |-> "mmap", name |-> name, mode |-> "ACCESS_READ"]

\* IndexedDataset.__init__: the index is read and filtered, each distinct
\* filename is opened, then each is mapped, and cleanup is registered with
\* atexit.  order is the order unique() gives the filenames in.
Constructed(rows, order) ==
    /\ rd_index' = rows
    /\ rd_handles' = [n \in Filenames(rows) |-> "open"]
    /\ rd_maps' = [n \in Filenames(rows) |-> "open"]
    /\ rd_log' = [k \in 1..Len(order) |-> Opened(order[k])]
                     \o [k \in 1..Len(order) |-> Mapped(order[k])]
    /\ rd_pc' = "live"

Construct ==
    /\ rd_pc = "new"
    /\ \E order \in Orders(Filenames(Filtered(rd_filter, rd_stored))) :
           Constructed(Filtered(rd_filter, rd_stored), order)
    /\ UNCHANGED <<config, main, pool, history, scanning, piping,
                   rd_stored, rd_filter, rd_class, rd_got>>

\* The result of a lookup: what it returns, or the exception it raises.
Returned(idx, v) == [status |-> "ok", idx |-> idx, val |-> v]
Failed(idx, e) == [status |-> e, idx |-> idx, val |-> NoValue]

\* self.index.row(idx): the row's values in column order, each with the
\* column it comes from.  The filename column holds strings, start and end
\* hold integers.
row(idx) == rd_index[idx + 1]
named(r, key) == r[CHOOSE n \in 1..Len(r) : r[n].key = key]
IsFilename(col) == col.key = <<"filename">>

\* self.mem_maps[filename][start:end] for the three values a lookup has
\* bound to filename, start and end: the exception it raises, if any.  A
\* filename that is no key of mem_maps is a KeyError, a slice bound that is
\* no integer a TypeError, a closed mapping a ValueError.
slice_error(filename, start, end) ==
    IF ~IsFilename(filename) \/ filename.val \notin DOMAIN rd_maps
    THEN "KeyError"
    ELSE IF IsFilename(start) \/ IsFilename(end) THEN "TypeError"
    ELSE IF rd_maps[filename.val] # "open" THEN "ValueError"
    ELSE "none"

\* The bytes of the slice, when nothing is raised.
sliced(filename, start, end) ==
    Slice(files[filename.val], start.val, end.val)

\* json.loads(buffer), then the text of the record: the record itself when
\* it is a string, else item[text_key].
project_text(idx, buffer) ==
    LET item == json_loads(buffer)
    IN  IF ~item.ok THEN Failed(idx, "JSONDecodeError")
        ELSE IF item.val.kind = "str" THEN Returned(idx, item.val)
        ELSE IF item.val.kind # "obj" THEN Failed(idx, "TypeError")
        ELSE IF ~HasText(item.val) THEN Failed(idx, "KeyError")
        ELSE Returned(idx, TextOf(item.val))

\* self.loader.load_item(buffer): the decoded record.
decode_item(idx, buffer) ==
    LET item == load_item(default_loader, buffer)
    IN  IF item.ok THEN Returned(idx, item.val)
        ELSE Failed(idx, "JSONDecodeError")

\* dextro.dataset.IndexedDataset.__getitem__:
\*     filename, start, end, *_ = self.index.row(idx)
\* binds the first three columns of the row, whatever they are.
dataset_lookup(idx, filename, start, end) ==
    IF slice_error(filename, start, end) # "none"
    THEN Failed(idx, slice_error(filename, start, end))
    ELSE project_text(idx, sliced(filename, start, end))

dataset_getitem(idx) ==
    dataset_lookup(idx, row(idx)[1], row(idx)[2], row(idx)[3])

\* dextro.torch.IndexedDataset.__getitem__: the columns are taken by name.
torch_lookup(idx, filename, start, end) ==
    IF slice_error(filename, start, end) # "none"
    THEN Failed(idx, slice_error(filename, start, end))
    ELSE decode_item(idx, sliced(filename, start, end))

torch_getitem(idx) ==
    torch_lookup(idx, named(row(idx), <<"filename">>),
                 named(row(idx), <<"start">>), named(row(idx), <<"end">>))

\* IndexedDataset.__len__.
len == Len(rd_index)

\* reader[idx] for an ordinal in range(len(reader)).  Nothing is opened or
\* mapped.
GetItem ==
    /\ rd_pc = "live"
    /\ \E idx \in 0..(len - 1) :
           rd_got' = IF rd_class = "dataset" THEN dataset_getitem(idx)
                     ELSE torch_getitem(idx)
    /\ UNCHANGED <<config, main, pool, history, scanning, piping,
                   rd_stored, rd_filter, rd_class, rd_index, rd_handles,
                   rd_maps, rd_log, rd_pc>>

\* IndexedDataset.cleanup: every file handle and every mapping is closed;
\* closing a closed one does nothing.
cleanup ==
    /\ rd_handles' = [n \in DOMAIN rd_handles |-> "closed"]
    /\ rd_maps' = [n \in DOMAIN rd_maps |-> "closed"]

\* The caller calls reader.cleanup().
Cleanup ==
    /\ rd_pc = "live"
    /\ cleanup
    /\ UNCHANGED <<config, main, pool, history, scanning, piping,
                   rd_stored, rd_filter, rd_class, rd_index, rd_log,
                   rd_pc, rd_got>>

\* The caller lets go of the reader.  The class has no __del__, no close()
\* and is no context manager, and atexit holds the bound method
\* self.cleanup, so the object stays alive and nothing is released.
Discard ==
    /\ rd_pc = "live"
    /\ rd_pc' = "discarded"
    /\ UNCHANGED <<config, main, pool, history, scanning, piping,
                   rd_stored, rd_filter, rd_class, rd_index, rd_handles,
                   rd_maps, rd_log, rd_got>>

\* The interpreter exits normally: atexit runs the registered cleanup.
Exit ==
    /\ rd_pc \in {"live", "discarded"}
    /\ cleanup
    /\ rd_pc' = "exited"
    /\ UNCHANGED <<config, main, pool, history, scanning, piping,
                   rd_stored, rd_filter, rd_class, rd_index, rd_log,
                   rd_got>>

\* The process is killed: no atexit hook runs.
Kill ==
    /\ rd_pc \in {"live", "discarded"}
    /\ rd_pc' = "killed"
    /\ UNCHANGED <<config, main, pool, history, scanning, piping,
                   rd_stored, rd_filter, rd_class, rd_index, rd_handles,
                   rd_maps, rd_log, rd_got>>

ReadNext == Construct \/ GetItem \/ Cleanup \/ Discard \/ Exit \/ Kill

ReadSpec == ReadInit /\ [][ReadNext]_vars

\* ------------------------------------------------- claims about the reader

\* The maps of the reader are all open.
MapsOpen == \A n \in DOMAIN rd_maps : rd_maps[n] = "open"

\* The record that the row with ordinal idx locates: the decoded bytes
\* [start, end) of the row's file.
RecordOf(idx) ==
    json_loads(Slice(files[Field(row(idx), <<"filename">>)],
                     Field(row(idx), <<"start">>),
                     Field(row(idx), <<"end">>))).val

\* C11: a lookup of dextro.dataset.IndexedDataset, on an index built by
\* index_dataset, returns the decoded record of the row's [start, end)
\* slice, a mapping that holds the record's text.
C11_LookupReturnsRecord ==
    (rd_class = "dataset" /\ MapsOpen /\ rd_got.status # "none")
        => /\ rd_got = Returned(rd_got.idx, RecordOf(rd_got.idx))
           /\ HasText(rd_got.val)

\* The same of dextro.torch.IndexedDataset, which does return the record.
TorchLookupReturnsRecord ==
    (rd_class = "torch" /\ MapsOpen /\ rd_got.status # "none")
        => /\ rd_got = Returned(rd_got.idx, RecordOf(rd_got.idx))
           /\ HasText(rd_got.val)

\* The number of events of the log with this operation on this file.
Events(op, name) ==
    Cardinality({k \in 1..Len(rd_log) :
                    rd_log[k].op = op /\ rd_log[k].name = name})

\* The modes that ask for no write access.
ReadOnlyModes == {"rb", "ACCESS_READ"}

\* C12: once constructed, and whatever lookups follow, the reader has opened
\* and mapped each filename of the filtered index exactly once and no other
\* file, every one of them read-only.
C12_OpenedOnceReadOnly ==
    rd_pc \notin {"idle", "new"}
        => /\ \A name \in DOMAIN files :
                  LET n == IF name \in Filenames(rd_index) THEN 1 ELSE 0
                  IN  Events("open", name) = n /\ Events("mmap", name) = n
           /\ \A k \in 1..Len(rd_log) : rd_log[k].mode \in ReadOnlyModes

\* Every file handle and every mapping of the reader is closed.
Released ==
    /\ \A n \in DOMAIN rd_handles : rd_handles[n] = "closed"
    /\ \A n \in DOMAIN rd_maps : rd_maps[n] = "closed"

\* C13: a reader that has been discarded holds no open file handle and no
\* open mapping, while the process is still running.
C13_ReleasedOnDiscard == rd_pc = "discarded" => Released

\* --------------------------- one FileIndexer over one file, step by step

\* The lines a file is made of: a record with a text, a record without,
\* a line that is no JSON, and a blank line.
PipeLines == {TextRecord(<<"h", "i">>), <<"1">>, <<"x">>, <<>>}

\* The lines joined by LF.
RECURSIVE Joined(_)
Joined(lines) ==
    IF lines = <<>> THEN <<>>
    ELSE IF Len(lines) = 1 THEN Head(lines)
    ELSE Head(lines) \o <<LF>> \o Joined(Tail(lines))

\* The files: up to MaxLines lines, with or without a final newline.
PipeFiles ==
    LET texts == {Joined(l) :
                     l \in UNION {[1..n -> PipeLines] : n \in 0..MaxLines}}
    IN  texts \cup {t \o <<LF>> : t \in texts}

\* The enrichers configured: every list of up to MaxStages stages, and
\* four longer ones.
PipeEnrichers ==
    UNION {[1..n -> PerItemKinds \cup BatchedKinds] : n \in 0..MaxStages}
    \cup {<<"KeepText", "TextLength", "BatchKeepText", "LanguageDetection">>,
          <<"KeepText", "TextLength", "BatchDropAll", "LanguageDetection">>,
          <<"BatchKeepText", "TextLength", "LanguageDetection">>,
          <<"TextLength", "KeepText", "DropAll", "BatchKeepText">>}

\* FileIndexer(loader, batch_size, enrichers)(path) has been called.
PipeInit ==
    /\ files = <<>> /\ glob = <<>>
    /\ num_workers = Nothing /\ max_iter = Nothing
    /\ indexer \in {FileIndexerOf(default_loader, b, e) :
                        b \in 1..(MaxBatch + 1), e \in PipeEnrichers}
    /\ MainIdle /\ ReadIdle
    /\ scan_loader = default_loader
    /\ scan_data \in PipeFiles
    /\ scan_st = ScanStart(default_loader) /\ scan_items = <<>>
    /\ scan_pc = "idle"
    /\ pipe_pc = "pull" /\ pipe_cur = NoItem /\ pipe_k = 0
    /\ pipe_batch = <<>> /\ pipe_out = <<>> /\ pipe_log = <<>>

\* What the calls of the run are logged as: the stage called, or "append"
\* and "emit", with the start offsets of the items it is given and of the
\* items it gives back.
Ids(items) == [n \in 1..Len(items) |-> items[n].meta.start]
Call(stage, items, kept) ==
    [stage |-> stage, ids |-> Ids(items), kept |-> Ids(kept)]

\* The items a stage's answer holds.
ItemKept(r) == IF r.status = "ok" THEN <<r.item>> ELSE <<>>
BatchKept(r) == IF r.status = "ok" THEN Survivors(r.slots) ELSE <<>>

\* for item in self.loader.iter_file_items(path): the next pass of the
\* loader's loop.  At the end of the file a buffer that is not empty goes
\* to the batched enrichers.
PipePulled(r) ==
    CASE r.kind = "raise" ->
            /\ pipe_pc' = "raised"
            /\ UNCHANGED <<scan_st, pipe_cur, pipe_k>>
      [] r.kind = "skip" ->
            /\ scan_st' = r.st
            /\ UNCHANGED <<pipe_pc, pipe_cur, pipe_k>>
      [] r.kind = "break" ->
            /\ pipe_pc' = IF pipe_batch = <<>> THEN "done" ELSE "last"
            /\ pipe_k' = 1
            /\ UNCHANGED <<scan_st, pipe_cur>>
      [] r.kind = "yield" ->
            /\ scan_st' = r.st
            /\ pipe_cur' = r.item
            /\ pipe_k' = 1
            /\ pipe_pc' = "item"

PipePull ==
    /\ pipe_pc = "pull"
    /\ PipePulled(iter_step(indexer.loader, scan_name, scan_data, scan_st))
    /\ UNCHANGED <<config, main, pool, history, reading, scan_loader,
                   scan_data, scan_items, scan_pc, pipe_batch, pipe_out,
                   pipe_log>>

\* A variant that goes on to the next enricher with an item the last one
\* dropped.
PipeItemEnrichedOn(r) ==
    CASE r.status = "raise" ->
            /\ pipe_pc' = "raised"
            /\ UNCHANGED <<pipe_cur, pipe_k>>
      [] OTHER ->
            /\ pipe_cur' = IF r.status = "ok" THEN r.item ELSE pipe_cur
            /\ pipe_k' = pipe_k + 1
            /\ UNCHANGED pipe_pc

\* _enrich_item: the next per-item enricher is called on the item.
PipeItemEnriched(r) ==
    CASE r.status = "raise" ->
            /\ pipe_pc' = "raised"
            /\ UNCHANGED <<pipe_cur, pipe_k>>
      [] r.status = "drop" ->
            /\ pipe_pc' = "pull"
            /\ pipe_cur' = NoItem
            /\ UNCHANGED pipe_k
      [] r.status = "ok" ->
            /\ pipe_cur' = r.item
            /\ pipe_k' = pipe_k + 1
            /\ UNCHANGED pipe_pc

PipeEnrichItem ==
    /\ pipe_pc = "item"
    /\ pipe_k <= Len(indexer.enrichers)
    /\ pipe_log' = Append(pipe_log,
           Call(indexer.enrichers[pipe_k], <<pipe_cur>>,
                ItemKept(enrich_item(indexer.enrichers[pipe_k], pipe_cur))))
    /\ PipeItemEnriched(enrich_item(indexer.enrichers[pipe_k], pipe_cur))
    /\ UNCHANGED <<config, main, pool, history, reading, scanning,
                   pipe_batch, pipe_out>>

\* A variant that flushes only once the buffer holds more than batch_size.
PipeAppendPastSize ==
    /\ pipe_pc = "item"
    /\ pipe_k > Len(indexer.enrichers)
    /\ pipe_batch' = Append(pipe_batch, pipe_cur)
    /\ pipe_log' = Append(pipe_log,
                          Call("append", <<pipe_cur>>, <<pipe_cur>>))
    /\ pipe_cur' = NoItem
    /\ IF Len(pipe_batch) + 1 > indexer.batch_size
       THEN pipe_pc' = "flush" /\ pipe_k' = 1
       ELSE pipe_pc' = "pull" /\ UNCHANGED pipe_k
    /\ UNCHANGED <<config, main, pool, history, reading, scanning,
                   pipe_out>>

\* batch.append(item), and the test of the buffer against batch_size.
PipeAppend ==
    /\ pipe_pc = "item"
    /\ pipe_k > Len(indexer.enrichers)
    /\ pipe_batch' = Append(pipe_batch, pipe_cur)
    /\ pipe_log' = Append(pipe_log,
                          Call("append", <<pipe_cur>>, <<pipe_cur>>))
    /\ pipe_cur' = NoItem
    /\ IF Len(pipe_batch) + 1 >= indexer.batch_size
       THEN pipe_pc' = "flush" /\ pipe_k' = 1
       ELSE pipe_pc' = "pull" /\ UNCHANGED pipe_k
    /\ UNCHANGED <<config, main, pool, history, reading, scanning,
                   pipe_out>>

\* _enrich_batch: the next batched enricher is called on the batch, and
\* the items it returned None for are taken out; an empty batch ends the
\* loop.
PipeBatchEnriched(r) ==
    IF r.status = "raise"
    THEN /\ pipe_pc' = "raised"
         /\ UNCHANGED <<pipe_batch, pipe_k>>
    ELSE /\ pipe_batch' = Survivors(r.slots)
         /\ pipe_k' = IF Survivors(r.slots) = <<>>
                      THEN Len(indexer.batched_enrichers) + 1
                      ELSE pipe_k + 1
         /\ UNCHANGED pipe_pc

PipeEnrichBatch ==
    /\ pipe_pc \in {"flush", "last"}
    /\ pipe_k <= Len(indexer.batched_enrichers)
    /\ pipe_log' = Append(pipe_log,
           Call(indexer.batched_enrichers[pipe_k], pipe_batch,
                BatchKept(enrich_batch(indexer.batched_enrichers[pipe_k],
                                       pipe_batch))))
    /\ PipeBatchEnriched(enrich_batch(indexer.batched_enrichers[pipe_k],
                                      pipe_batch))
    /\ UNCHANGED <<config, main, pool, history, reading, scanning,
                   pipe_cur, pipe_out>>

\* A variant that yields the rows and leaves the buffer as it is.
PipeEmitKeepsBuffer ==
    /\ pipe_pc \in {"flush", "last"}
    /\ pipe_k > Len(indexer.batched_enrichers)
    /\ pipe_out' = pipe_out \o _finish_batch(pipe_batch)
    /\ pipe_log' = Append(pipe_log, Call("emit", pipe_batch, pipe_batch))
    /\ pipe_pc' = IF pipe_pc = "flush" THEN "pull" ELSE "done"
    /\ UNCHANGED <<config, main, pool, history, reading, scanning,
                   pipe_cur, pipe_k, pipe_batch>>

\* yield from self._finish_batch(batch), then batch = [] inside the loop.
PipeEmit ==
    /\ pipe_pc \in {"flush", "last"}
    /\ pipe_k > Len(indexer.batched_enrichers)
    /\ pipe_out' = pipe_out \o _finish_batch(pipe_batch)
    /\ pipe_log' = Append(pipe_log, Call("emit", pipe_batch, pipe_batch))
    /\ pipe_batch' = <<>>
    /\ pipe_pc' = IF pipe_pc = "flush" THEN "pull" ELSE "done"
    /\ UNCHANGED <<config, main, pool, history, reading, scanning,
                   pipe_cur, pipe_k>>

PipeNext ==
    PipePull \/ PipeEnrichItem \/ PipeAppend \/ PipeEnrichBatch \/ PipeEmit

PipeSpec == PipeInit /\ [][PipeNext]_vars

\* The run, when over, has yielded the rows of FileIndexer and ended as it
\* does.
PipeAgrees ==
    /\ pipe_pc = "done"
           => Rows(pipe_out) = FileIndexer(indexer, scan_name, scan_data)
    /\ pipe_pc = "raised"
           => RowsThenRaise(pipe_out)
                  = FileIndexer(indexer, scan_name, scan_data)

\* ----------------------------------------------- claims about FileIndexer

\* The stages the log names, in call order.
Called(stage) == \E k \in 1..Len(pipe_log) : pipe_log[k].stage = stage

\* An enricher that drops every item is configured.
DropsAll ==
    \/ "DropAll" \in Range(indexer.enrichers)
    \/ "BatchDropAll" \in Range(indexer.batched_enrichers)

OneByOne ==
    FileIndexer([indexer EXCEPT !.batch_size = 1], scan_name, scan_data)

\* The batched enrichers configured, one at least, keep or drop each item
\* by that item alone and raise nothing.
Independent ==
    /\ indexer.batched_enrichers # <<>>
    /\ Range(indexer.batched_enrichers)
           \subseteq {"BatchKeepText", "BatchDropAll"}

\* C15 as stated: whatever the batch size, the rows a run has emitted when
\* it is over are the rows batch size 1 emits for the file.
C15_SameRowsWhateverTheBatchSize ==
    (Independent /\ pipe_pc \in {"done", "raised"})
        => pipe_out = OneByOne.rows

\* C15: a run that ends without an exception has emitted exactly the rows
\* of batch size 1, which ends without one too; a run that ends with an
\* exception has emitted the first of the rows that batch size 1 emits
\* before it raises.
C15_SameRowsUnlessRaised ==
    /\ pipe_pc = "done" => Rows(pipe_out) = OneByOne
    /\ pipe_pc = "raised"
           => IsPrefix(pipe_out, OneByOne.rows) /\ OneByOne.err

\* A run with batch size 2 over three records has ended: a batched
\* enricher was given a full batch and then the one item left over.
C15_Witness ==
    /\ pipe_pc = "done"
    /\ indexer.batch_size = 2
    /\ Len(pipe_out) = 3
    /\ \E j, k \in 1..Len(pipe_log) :
           /\ pipe_log[j].stage \in BatchedKinds
           /\ pipe_log[k].stage \in BatchedKinds
           /\ Len(pipe_log[j].ids) = 2
           /\ Len(pipe_log[k].ids) = 1

\* The offsets at which the lines of a file start, and those of its record
\* lines: the lines that are not blank.
LineStarts(data) == {p \in 0..(Len(data) - 1) : p = 0 \/ data[p] = LF}
RecordLines(data) ==
    {p \in LineStarts(data) : strip(readline(data, p)) # <<>>}

\* No enricher is configured.
NoEnrichers == indexer.enrichers = <<>> /\ indexer.batched_enrichers = <<>>

\* C16: with no enrichers, a run that has ended normally has emitted one
\* row for each record line of the file, in the order of the lines.
C16_OneRowPerRecordLine ==
    (NoEnrichers /\ pipe_pc = "done")
        => /\ Len(pipe_out) = Cardinality(RecordLines(scan_data))
           /\ \A j, k \in 1..Len(pipe_out) :
                  j < k => Field(pipe_out[j], <<"start">>)
                               < Field(pipe_out[k], <<"start">>)

\* The file has no blank line before its last record line.
NoBlankInside ==
    \A p \in LineStarts(scan_data), q \in RecordLines(scan_data) :
        p < q => p \in RecordLines(scan_data)

\* On the files without such a blank line the count and the order hold.
RowPerRecordLineWithoutBlanks == NoBlankInside => C16_OneRowPerRecordLine

\* The keys of a row, and the record its location holds.
Keys(r) == {r[n].key : n \in 1..Len(r)}
Located(r) ==
    json_loads(Slice(scan_data, Field(r, <<"start">>),
                     Field(r, <<"end">>))).val

\* The enrichment keys the configured stages attach to an item that
\* passes them all.
Attached ==
    {<<"text_length">> : k \in {"TextLength"} \cap Range(indexer.enrichers)}
    \cup {<<"language">> : k \in {"LanguageDetection"}
                                \cap Range(indexer.batched_enrichers)}

Determined ==
    TableOf(indexer, files, discover(Listing(DOMAIN files), glob))
Capped(rows) ==
    IF Truthy(max_iter) THEN SubSeq(rows, 1, Min(max_iter.v, Len(rows)))
    ELSE rows

\* C18: whatever order the directory lists its files in, a sequential run
\* that ends with a table ends with the rows that the directory and the
\* configuration determine, in that order, and a run that ends with an
\* exception has yielded the first of them: two runs over the same
\* directory with the same configuration give equal row sequences.
C18_SequentialDeterminism ==
    ~Parallel =>
        /\ outcome = "table" => table = Capped(Determined)
        /\ outcome = "error" => IsPrefix(table, Determined)

\* A sequential run over three files, which the patterns do not give in
\* name order, has ended with its table.
C18_Witness ==
    /\ ~Parallel /\ outcome = "table"
    /\ Len(paths) = 3
    /\ glob = <<star_jsonl, star_json>>
    /\ Len(table) >= 3

\* -------------------------------------- claims about the enricher pipeline

\* The stages an item goes through when nothing drops it, and the stages
\* the log shows it has gone through, in call order.
Pipeline ==
    indexer.enrichers \o <<"append">> \o indexer.batched_enrichers
        \o <<"emit">>
Trace(id) ==
    LET calls == SelectSeq(pipe_log, LAMBDA c : id \in Range(c.ids))
    IN  [n \in 1..Len(calls) |-> calls[n].stage]
Scanned == UNION {Range(pipe_log[k].ids) : k \in 1..Len(pipe_log)}

\* C19: each item goes through the per-item enrichers in configured order,
\* then into the buffer, then through the batched enrichers in configured
\* order, then out, each stage once; and an item that a stage does not
\* give back is given to no later stage, not appended and not emitted.
C19_StagesInOrderDropFinal ==
    /\ \A id \in Scanned : IsPrefix(Trace(id), Pipeline)
    /\ \A k \in 1..Len(pipe_log) :
           \A id \in Range(pipe_log[k].ids) \ Range(pipe_log[k].kept) :
               \A j \in (k + 1)..Len(pipe_log) :
                   id \notin Range(pipe_log[j].ids)

\* A run with two per-item and two batched enrichers has ended: the first
\* per-item enricher dropped an item, and the first batched one dropped
\* another that the per-item ones had let through.
C19_Witness ==
    /\ pipe_pc = "done"
    /\ Len(indexer.enrichers) >= 2
    /\ Len(indexer.batched_enrichers) >= 2
    /\ \E k \in 1..Len(pipe_log) :
           /\ pipe_log[k].stage = indexer.enrichers[1]
           /\ pipe_log[k].kept = <<>>
    /\ \E k \in 1..Len(pipe_log) :
           /\ pipe_log[k].stage \in BatchedKinds
           /\ Len(pipe_log[k].kept) < Len(pipe_log[k].ids)

\* The calls that begin a flush: a batched enricher's, or the emission when
\* there is none, that does not follow a batched enricher's call.
FlushHeads ==
    {k \in 1..Len(pipe_log) :
        /\ pipe_log[k].stage \in BatchedKinds \cup {"emit"}
        /\ k = 1 \/ pipe_log[k - 1].stage \notin BatchedKinds}

\* The per-item survivors, and the flushes an item has been in.
Appended ==
    UNION {Range(pipe_log[k].ids) :
              k \in {j \in 1..Len(pipe_log) : pipe_log[j].stage = "append"}}
FlushesOf(id) == {k \in FlushHeads : id \in Range(pipe_log[k].ids)}

\* The buffer and the flushes: the buffer holds at most batch_size items,
\* fewer while the file is being read; a flush is of batch_size items, or
\* of fewer, not none, and then it is the last, at the end of the file; no
\* batched enricher is called with an empty list.
Buffering ==
    /\ Len(pipe_batch) <= indexer.batch_size
    /\ pipe_pc \in {"pull", "item"} => Len(pipe_batch) < indexer.batch_size
    /\ \A k \in FlushHeads :
           /\ pipe_log[k].ids # <<>>
           /\ Len(pipe_log[k].ids) <= indexer.batch_size
           /\ Len(pipe_log[k].ids) < indexer.batch_size
                  => /\ pipe_pc \in {"last", "done", "raised"}
                     /\ \A j \in FlushHeads : j <= k
    /\ \A k \in 1..Len(pipe_log) :
           pipe_log[k].stage \in BatchedKinds => pipe_log[k].ids # <<>>

\* C20 as stated: the buffer and the flushes are as above, and when the run
\* is over every per-item survivor has been in exactly one flush.
C20_EverySurvivorFlushedOnce ==
    /\ Buffering
    /\ (pipe_pc \in {"done", "raised"} /\ indexer.batched_enrichers # <<>>)
           => \A id \in Appended : Cardinality(FlushesOf(id)) = 1

\* C20: the buffer and the flushes are as above; a per-item survivor has
\* been in one flush at most, one that has been in none is still in the
\* buffer, and when the run has ended without an exception every survivor
\* has been in exactly one flush.
C20_SurvivorFlushedOnceOrBuffered ==
    /\ Buffering
    /\ \A id \in Appended :
           /\ Cardinality(FlushesOf(id)) <= 1
           /\ FlushesOf(id) = {} => id \in Range(Ids(pipe_batch))
           /\ pipe_pc = "done" => Cardinality(FlushesOf(id)) = 1

\* A run with batch size 2 and two batched enrichers over three survivors
\* has ended: a flush of two and a last flush of one, and the first
\* enricher emptied a batch, after which the second was not called.
C20_Witness ==
    /\ pipe_pc = "done"
    /\ indexer.batch_size = 2
    /\ Len(indexer.batched_enrichers) = 2
    /\ Cardinality(Appended) = 3
    /\ Cardinality(FlushHeads) = 2
    /\ \E k \in 1..(Len(pipe_log) - 1) :
           /\ pipe_log[k].stage = indexer.batched_enrichers[1]
           /\ pipe_log[k].kept = <<>>
           /\ pipe_log[k + 1].stage = "emit"

\* ------------------------------------------------- claims about the scans

\* The starts of the items the scan has yielded.
YieldedAt == {scan_items[k].meta.start : k \in 1..Len(scan_items)}

\* The offsets of the data lines of a JSON-lines file: the lines that are
\* not blank and hold a JSON value.
DataLines(data) ==
    {p \in RecordLines(data) : json_loads(strip(readline(data, p))).ok}

\* C21: when the JSON-lines scan has run to its end, every data line of
\* the file has been yielded as an item that starts where the line starts,
\* blank lines before it or not.
C21_BlankLinesPassedOver ==
    (scan_loader.kind = "jsonl" /\ scan_pc = "end")
        => DataLines(scan_data) \subseteq YieldedAt

\* The same on the files that have no blank line before a record line.
RecordLinesYieldedWithoutBlanks ==
    (\A p \in LineStarts(scan_data), q \in RecordLines(scan_data) :
         p < q => p \in RecordLines(scan_data))
        => C21_BlankLinesPassedOver

\* --------------------------------------- claims about the worker protocol

\* The tasks that have put all the rows of their file and the sentinel
\* after them: they are about to return, or have returned.
PastSentinel ==
    {i \in 1..Len(futures) :
        \/ futures[i] = "ok"
        \/ i \in DOMAIN workers /\ workers[i].phase = "return"}

\* The rows task i has put: those the coordinator has taken and those
\* still in the queue.
RowsPut(i) ==
    Cardinality({k \in 1..Len(origin) : origin[k] = i})
        + Cardinality({k \in 1..Len(queue) : queue[k].task = i})

\* The sentinels in the queue, and those the coordinator has taken: all
\* that were put but the ones in the queue.
SentinelsQueued == Cardinality({k \in 1..Len(queue) : queue[k] = Sentinel})
SentinelsTaken == Cardinality(PastSentinel) - SentinelsQueued

\* C22: in parallel mode, while the pool lives and after the generator has
\* ended, the sentinels put are one for each task that has put all the
\* rows of its file and none for any other, so never one per row; the
\* counter is the number of files less the sentinels taken and is not
\* negative; and what is yielded is a row of the file it came from, never
\* a sentinel.
C22_SentinelProtocol ==
    (Parallel /\ pc \in {"drain", "join", "done"} /\ paths # <<>>) =>
        /\ SentinelsTaken >= 0
        /\ \A i \in PastSentinel : RowsPut(i) = Len(RunOf(i).rows)
        /\ remaining = Len(paths) - SentinelsTaken
        /\ remaining >= 0
        /\ Len(origin) = Len(table)
        /\ \A k \in 1..Len(table) :
               /\ origin[k] \in 1..Len(paths)
               /\ table[k] \in Range(RunOf(origin[k]).rows)

\* The drain loop is running over three files: one sentinel has been
\* taken, another waits in the queue behind a row, and a third task is
\* still putting rows.
C22_Witness ==
    /\ Parallel /\ pc = "drain"
    /\ Len(paths) = 3 /\ remaining = 2
    /\ SentinelsQueued = 1
    /\ queue[1] # Sentinel
    /\ table # <<>>
    /\ \E i \in DOMAIN workers :
           workers[i].phase = "run" /\ workers[i].sent >= 1

\* The cap is below the rows the files hold, and the consumer has reached
\* it.
CapReached ==
    /\ Parallel /\ paths # <<>>
    /\ Truthy(max_iter)
    /\ max_iter.v < Len(AllRows(Len(paths)))
    /\ Len(table) >= max_iter.v

\* The sentinels put so far: those taken and those in the queue.
SentinelsSeen == (Len(paths) - remaining) + SentinelsQueued

LineIndex(data, p) == Cardinality({q \in RecordLines(data) : q < p})

\* The fields of the line at offset p.
RowAt(loader, data, p) ==
    csv_reader(strip(readline(data, p)), loader.delimiter).row

\* Whether the scan takes its column names from a header line.
HeaderExpected(loader) == loader.header.some /\ ~loader.names.some

\* The lines that come after the header line, or every non-blank line when
\* no header line is expected.
LinesAfterHeader(loader, data) ==
    {p \in RecordLines(data) :
        HeaderExpected(loader) => LineIndex(data, p) > loader.header.v}

\* The names the records are keyed by: the fields of line header, the
\* names given, or col_i for a row of n fields.
NamesFor(loader, data, n) ==
    IF HeaderExpected(loader)
    THEN RowAt(loader, data,
               CHOOSE p \in RecordLines(data) :
                   LineIndex(data, p) = loader.header.v)
    ELSE IF loader.names.some THEN loader.names.v
    ELSE col_names(n)

\* What the statement gives for a CSV scan that came to its end on a file
\* with no blank line before a record line: one item for every line after
\* the header line, in the order of the file, each starting where its line
\* starts and holding its row keyed by the names.
HeaderHandled ==
    (scan_loader.kind = "csv" /\ scan_pc = "end" /\ NoBlankInside) =>
        /\ YieldedAt = LinesAfterHeader(scan_loader, scan_data)
        /\ Len(scan_items)
               = Cardinality(LinesAfterHeader(scan_loader, scan_data))
        /\ \A k \in 1..Len(scan_items) :
               scan_items[k].data
                   = zip_dict(NamesFor(scan_loader, scan_data,
                                       Len(RowAt(scan_loader, scan_data,
                                                 scan_items[k].meta.start))),
                              RowAt(scan_loader, scan_data,
                                    scan_items[k].meta.start),
                              <<>>)
        /\ \A k \in 1..(Len(scan_items) - 1) :
               scan_items[k].meta.start < scan_items[k + 1].meta.start

\* C24: a CSV scan with header = h and no names given skips the lines
\* before line h, takes line h as the column names and yields every later
\* non-empty line as one record keyed by those names; with header = None
\* or names given it yields every non-empty line.
C24_HeaderSkippedThenNames == HeaderHandled

\* The same for the loaders whose header is line 0 or that expect none.
HeaderZeroOrNoneHandled ==
    (HeaderExpected(scan_loader) => scan_loader.header.v = 0)
        => HeaderHandled

\* A scan with header = 0 came to its end with two records after the
\* header line.
HeaderZeroScanned ==
    /\ scan_loader.kind = "csv" /\ HeaderExpected(scan_loader)
    /\ scan_loader.header.v = 0
    /\ scan_pc = "end" /\ Len(scan_items) = 2

\* C25: for every item the CSV scan yields, the reader's lookup, which
\* decodes the bytes [start, end) of the file with the same loader's
\* load_item, gives the record the scan yielded: the same mapping from
\* column name to value.
C25_CsvRoundTrip ==
    scan_loader.kind = "csv" =>
        \A k \in 1..Len(scan_items) :
            getitem(scan_loader, scan_data, scan_items[k].meta.start,
                    scan_items[k].meta.end)
                = [ok |-> TRUE, val |-> scan_items[k].data]

\* What the lookup does give when the line has no whitespace before its
\* first field: the list of the record's values, without the names.
CsvLookupGivesValues ==
    scan_loader.kind = "csv" =>
        \A k \in 1..Len(scan_items) :
            Slice(scan_data, scan_items[k].meta.start,
                  scan_items[k].meta.end)
                    = strip(readline(scan_data, scan_items[k].meta.start))
                => getitem(scan_loader, scan_data,
                           scan_items[k].meta.start, scan_items[k].meta.end)
                       = [ok |-> TRUE,
                          val |-> ListValue(
                                     RowAt(scan_loader, scan_data,
                                           scan_items[k].meta.start))]

====
